---- MODULE Spec2Model ----
(***************************************************************************)
(* The HotStuff consensus transport of charon (package hotstuff, type      *)
(* transport): Broadcast, SendTo, ReceiveCh and P2PHandler over one        *)
(* buffered channel recvCh, with the consensus engine as the caller of     *)
(* Broadcast/SendTo, the libp2p host as the caller of P2PHandler and the   *)
(* engine's receive loop as the only reader of the channel.                *)
(* And, apart from it, Auto of package compose (testutil/compose/auto.go), *)
(* which runs the compose steps define, lock and run one after the other.  *)
(***************************************************************************)
EXTENDS Integers, Sequences, FiniteSets

VARIABLES
    peers,      \* transport.peers: the directory, a sequence of peer.ID
    self,       \* t.tcpNode.ID(): the local host's peer.ID
    recvCh,     \* transport.recvCh: the buffered channel's contents, oldest first
    call,       \* the engine's current (or last returned) Broadcast/SendTo call
    hnd,        \* per inbound session: its current (or last returned) P2PHandler call
    accepted,   \* history: every value sent on recvCh, in the order of the sends
    received,   \* history: every value the consumer read from ReceiveCh(), in order
    ncalls,     \* history: number of Broadcast/SendTo calls the engine has made
    auto        \* compose.Auto: the call's position, configuration, step and result

vars == <<peers, self, recvCh, call, hnd, accepted, received, ncalls>>

---------------------------------------------------------------------------
(* Program constant and the bounds of the model.                           *)

msgBufferSize == 16

\* largest directory
MaxPeers == 4
\* calls made in all (Broadcast and SendTo by the engine, P2PHandler by the
\* host), and messages the consumer reads
MaxCalls == 2

---------------------------------------------------------------------------
(* Values.                                                                 *)

\* peer.ID of the peer at directory position i (ID i is position i, index i-1)
PeerIDAt(i) == 100 + i

\* a peer.ID that is in no directory
Outsider == 100

\* *hs.Msg values the engine sends
Msgs == {[Type |-> "prepare", View |-> 1]}

NoMsg == [Type |-> "none", View |-> 0]

\* hs.MsgType as the uint64 the wire carries
TypeCode(t) == CASE t = "prepare" -> 1 [] t = "vote" -> 2 [] OTHER -> 0

CodeType(c) == CASE c = 1 -> "prepare" [] c = 2 -> "vote" [] OTHER -> "none"

\* msg.ToProto(): the *pbv1.HotStuffMsg of a message
ToProto(m) == [kind |-> "HotStuffMsg", ptr |-> "set", type |-> TypeCode(m.Type), view |-> m.View]

\* hs.ProtoToMsg(pbMsg)
ProtoToMsg(p) == [Type |-> CodeType(p.type), View |-> p.view]

\* proto.Message values the libp2p host may hand to P2PHandler: a nil interface,
\* a nil *pbv1.HotStuffMsg, a message of another protocol, a HotStuff message
NilReq == [kind |-> "nil", ptr |-> "nil", type |-> 0, view |-> 0]

TypedNilReq == [kind |-> "HotStuffMsg", ptr |-> "nil", type |-> 0, view |-> 0]

OtherReq == [kind |-> "QBFTConsensusMsg", ptr |-> "set", type |-> 1, view |-> 1]

\* *hs.Msg values remote peers send
RemoteMsgs == {[Type |-> "vote", View |-> 2]}

Reqs == {NilReq, TypedNilReq, OtherReq} \cup {ToProto(m) : m \in RemoteMsgs}

\* errors are chains of messages, outermost first; nil is the empty chain
Nil == <<>>

\* errors.New(text)
New(text) == <<text>>

\* errors.Wrap(err, text)
Wrap(err, text) == <<text>> \o err

\* ctx.Err() of a context that is done
CtxErr == <<"context canceled">>

\* an error of the network host
ErrHost == <<"host error">>

\* hs.ID.ToIndex(): the 0-based index of an ID
ToIndex(id) == id - 1

\* what a channel slot holds: the message and, as history, who sent it
\* (the pointer's identity): src "prior", "engine" or "session", and which call
Slot(m, src, who, n) == [msg |-> m, src |-> src, who |-> who, n |-> n]

\* recvCh after k inbound deliveries have been accepted and none read
\* (prepare and vote messages in turn)
Prior(k) == [j \in 1..k |-> Slot([Type |-> IF j % 2 = 1 THEN "prepare" ELSE "vote", View |-> 1], "prior", 0, j)]

---------------------------------------------------------------------------
(* Channel and host primitives.                                            *)

\* len(ch) < cap(ch): a send on the channel can proceed
CanSend(ch) == Len(ch) < msgBufferSize

\* faulty variant: the value is put on the channel twice
SendTwice(ch, v) == Append(Append(ch, v), v)

\* faulty variant: the value is put in front of the values the channel holds
SendFront(ch, v) == <<v>> \o ch

\* ch <- v
Send(ch, v) == Append(ch, v)

\* faulty variant: the branch of the context also puts the value on the channel
SelectInsertOnDone(ch, v, ctxDone) ==
    (IF CanSend(ch) THEN {[sent |-> TRUE, ch |-> Send(ch, v)]} ELSE {})
        \cup (IF ctxDone THEN {[sent |-> FALSE, ch |-> Send(ch, v)]} ELSE {})

\* faulty variant: a send on a full channel makes room by dropping the oldest value
SelectEvictOldest(ch, v, ctxDone) ==
    {[sent |-> TRUE, ch |-> IF CanSend(ch) THEN Send(ch, v) ELSE Send(Tail(ch), v)]}
        \cup (IF ctxDone THEN {[sent |-> FALSE, ch |-> ch]} ELSE {})

\* faulty variant: a send on a full channel returns at once, the value dropped
SelectDropWhenFull(ch, v, ctxDone) ==
    {[sent |-> TRUE, ch |-> IF CanSend(ch) THEN Send(ch, v) ELSE ch]}
        \cup (IF ctxDone THEN {[sent |-> FALSE, ch |-> ch]} ELSE {})

\* faulty variant: a send on a full channel overwrites the newest value
SelectOverwriteNewest(ch, v, ctxDone) ==
    {[sent |-> TRUE, ch |-> IF CanSend(ch) THEN Send(ch, v) ELSE [ch EXCEPT ![Len(ch)] = v]]}
        \cup (IF ctxDone THEN {[sent |-> FALSE, ch |-> ch]} ELSE {})

\* faulty variant: the select has no case for the context
SelectNoDone(ch, v, ctxDone) ==
    IF CanSend(ch) THEN {[sent |-> TRUE, ch |-> Send(ch, v)]} ELSE {}

\* the outcomes of
\*     select { case ch <- v: ...; case <-ctx.Done(): ... }
\* the send when the channel has room, the context's branch when it is done,
\* either when both can proceed, none (the caller stays suspended) otherwise
Select(ch, v, ctxDone) ==
    (IF CanSend(ch) THEN {[sent |-> TRUE, ch |-> Send(ch, v)]} ELSE {})
        \cup (IF ctxDone THEN {[sent |-> FALSE, ch |-> ch]} ELSE {})

\* faulty variant: the newest value is read instead of the oldest
RecvValueNewest(ch) == ch[Len(ch)]

\* v := <-ch: the value read, and the channel after the read
RecvValue(ch) == Head(ch)

RecvRest(ch) == Tail(ch)

\* faulty variant: the comparison negated
IsLocalNegated(p) == self # p

\* t.tcpNode.ID() == peer.ID
IsLocal(p) == self = p

\* faulty variant: the range check without its upper bound
InvalidIDNoUpper(id) == id < 1

\* the range check of SendTo: id < 1 || int(id) > len(t.peers)
InvalidID(id) == id < 1 \/ id > Len(peers)

\* faulty variant: the ID used as the index
PeerAtIndexOneBased(ix) == IF ix + 2 \in DOMAIN peers THEN peers[ix + 2] ELSE 0

\* t.peers[ix]; an index outside the slice panics
PeerAtIndex(ix) == IF ix + 1 \in DOMAIN peers THEN peers[ix + 1] ELSE 0

\* what p2p.Sender.SendAsync may return under a context that is done or not
SendAsyncResults(ctxDone) == {Nil, ErrHost} \cup (IF ctxDone THEN {CtxErr} ELSE {})

\* one send request handed to the network host, and what it returned
Attempt(to, payload, err) == [to |-> to, payload |-> payload, err |-> err]

\* faulty variant: the error of SendAsync is ignored and the loop goes on
BroadcastAfterSendIgnored(c, err) == [c EXCEPT !.i = @ + 1]

\* faulty variant: after a send the loop passes over the next peer
BroadcastAfterSendSkipNext(c, err) ==
    IF err # Nil
        THEN [c EXCEPT !.pc = "returned", !.ret = Wrap(err, "failed to send message")]
        ELSE [c EXCEPT !.i = @ + 2]

\* faulty variant: a failed send is tried once more before the call gives up
BroadcastAfterSendRetry(c, err) ==
    IF err # Nil
        THEN IF Len(c.sent) >= 2 /\ c.sent[Len(c.sent) - 1].to = c.sent[Len(c.sent)].to
                THEN [c EXCEPT !.pc = "returned", !.ret = Wrap(err, "failed to send message")]
                ELSE c
        ELSE [c EXCEPT !.i = @ + 1]

\* the Broadcast call after SendAsync returned err for the peer at position c.i
BroadcastAfterSend(c, err) ==
    IF err # Nil
        THEN [c EXCEPT !.pc = "returned", !.ret = Wrap(err, "failed to send message")]
        ELSE [c EXCEPT !.i = @ + 1]

\* the SendTo call after SendAsync returned err
SendToAfterSend(c, err) ==
    [c EXCEPT !.pc = "returned",
              !.ret = IF err # Nil THEN Wrap(err, "failed to send message") ELSE Nil]

\* req.(*pbv1.HotStuffMsg): isValid, and pbMsg == nil
IsValid(req) == req.kind = "HotStuffMsg"

\* faulty variant: no nil check
IsNilMsgNever(req) == FALSE

IsNilMsg(req) == req.ptr = "nil"

\* P2PHandler's return for a request that is no HotStuff message:
\*     return nil, false, errors.New("received invalid HotStuff consensus message")
P2PHandlerReject(h) ==
    [h EXCEPT !.pc = "returned", !.resp = "nil", !.more = FALSE,
              !.err = New("received invalid HotStuff consensus message")]

\* faulty variant: the error of the select is dropped
P2PHandlerReturnNil(h, err) ==
    [h EXCEPT !.pc = "returned", !.resp = "nil", !.more = FALSE, !.err = Nil]

\* P2PHandler's return after the select: return nil, false, err
P2PHandlerReturn(h, err) ==
    [h EXCEPT !.pc = "returned", !.resp = "nil", !.more = FALSE, !.err = err]

---------------------------------------------------------------------------
(* Initial state: newTransport over a directory of 1..MaxPeers peers that  *)
(* holds the local peer once, at any position; the channel is empty, or is *)
(* full of inbound deliveries accepted earlier that nobody has read yet.   *)

\* the engine's call: where it is (pc), its arguments (op, msg, id, ctxDone: the
\* context is done), its locals (i: the loop's position, peer, protoMsg), its
\* result (ret) and, as history, its number n, the send requests it made (sent),
\* the selects it went through (sel), the sends on recvCh among them (enq) and
\* the calls of ToProto (encs)
IdleCall == [pc |-> "idle", op |-> "none", n |-> 0, msg |-> NoMsg, id |-> 0, i |-> 0,
             peer |-> 0, protoMsg |-> NilReq, ctxDone |-> FALSE, ret |-> Nil,
             sent |-> <<>>, sel |-> 0, enq |-> 0, encs |-> 0]

\* a session's call of P2PHandler: pc, its arguments (from, req, ctxDone), its
\* results (resp, more, err) and, as history, n, sel and enq as above
IdleHnd == [pc |-> "idle", req |-> NilReq, from |-> Outsider, ctxDone |-> FALSE,
            resp |-> "nil", more |-> FALSE, err |-> Nil, sel |-> 0, enq |-> 0, n |-> 0]

\* the inbound sessions of the libp2p host, each calling P2PHandler
Sessions == {1, 2}

\* AutoConfig, as far as Auto's control flow reads it: the two switches, whether
\* each template function is set, and the alert timeout (zero: none)
AutoConfigs ==
    [SudoPerms : BOOLEAN, PrintYML : BOOLEAN, DefineTmplFunc : BOOLEAN,
     RunTmplFunc : BOOLEAN, AlertTimeout : {0, 1}]

\* no call of Auto: pc is where the call is, step the index of the loop's step
\* (0 outside the loop), ret what Auto returned and, as history, log the
\* commands the call ran, in order, each with the step it ran in and its error
NoAuto ==
    [pc |-> "idle",
     conf |-> [SudoPerms |-> FALSE, PrintYML |-> FALSE, DefineTmplFunc |-> FALSE,
               RunTmplFunc |-> FALSE, AlertTimeout |-> 0],
     step |-> 0, ret |-> Nil, log |-> <<>>]

Init ==
    /\ \E n \in 1..MaxPeers : \E l \in 1..n :
          /\ peers = [j \in 1..n |-> PeerIDAt(j)]
          /\ self = PeerIDAt(l)
    /\ \E k \in {0, msgBufferSize} :
          /\ recvCh = Prior(k)
          /\ accepted = Prior(k)
    /\ received = <<>>
    /\ call = IdleCall
    /\ hnd = [s \in Sessions |-> IdleHnd]
    /\ ncalls = 0
    /\ auto = NoAuto

---------------------------------------------------------------------------
(* A call's result is taken by its caller (Resume, below) before anything  *)
(* else happens, so that the result is read in the state the call returned *)
(* in: every other step is taken when no result is pending.                *)

Settled == call.pc # "returned" /\ \A s \in Sessions : hnd[s].pc # "returned"

---------------------------------------------------------------------------
(* transport.Broadcast                                                     *)

\* the engine calls Broadcast(ctx, m): protoMsg := msg.ToProto()
BroadcastCall(m, d) ==
    /\ Settled
    /\ call.pc = "idle"
    /\ ncalls < MaxCalls
    /\ ncalls' = ncalls + 1
    /\ call' = [IdleCall EXCEPT !.pc = "loop", !.op = "Broadcast", !.n = ncalls + 1, !.msg = m,
                                !.i = 1, !.protoMsg = ToProto(m), !.ctxDone = d,
                                !.encs = 1]
    /\ UNCHANGED <<peers, self, recvCh, hnd, accepted, received, auto>>

\* the loop's body at the local peer: the select on recvCh and ctx.Done()
BroadcastSelect ==
    /\ Settled
    /\ call.pc = "loop" /\ call.op = "Broadcast"
    /\ call.i <= Len(peers)
    /\ IsLocal(peers[call.i])
    /\ \E o \in Select(recvCh, Slot(call.msg, "engine", 0, call.n), call.ctxDone) :
          /\ recvCh' = o.ch
          /\ IF o.sent
                THEN /\ accepted' = Append(accepted, Slot(call.msg, "engine", 0, call.n))
                     /\ call' = [call EXCEPT !.i = @ + 1, !.sel = @ + 1, !.enq = @ + 1]
                ELSE /\ accepted' = accepted
                     /\ call' = [call EXCEPT !.pc = "returned", !.ret = CtxErr, !.sel = @ + 1]
    /\ UNCHANGED <<peers, self, hnd, received, ncalls, auto>>

\* the loop's body at a remote peer: SendAsync of protoMsg
BroadcastSendAsync ==
    /\ Settled
    /\ call.pc = "loop" /\ call.op = "Broadcast"
    /\ call.i <= Len(peers)
    /\ ~IsLocal(peers[call.i])
    /\ \E err \in SendAsyncResults(call.ctxDone) :
          call' = BroadcastAfterSend(
                      [call EXCEPT !.sent = Append(@, Attempt(peers[call.i], call.protoMsg, err))],
                      err)
    /\ UNCHANGED <<peers, self, recvCh, hnd, accepted, received, ncalls, auto>>

\* the loop is over: return nil
BroadcastReturn ==
    /\ Settled
    /\ call.pc = "loop" /\ call.op = "Broadcast"
    /\ call.i > Len(peers)
    /\ call' = [call EXCEPT !.pc = "returned", !.ret = Nil]
    /\ UNCHANGED <<peers, self, recvCh, hnd, accepted, received, ncalls, auto>>

---------------------------------------------------------------------------
(* transport.SendTo                                                        *)

\* the IDs the engine passes: every valid one and the two next to the range
IDs == 0..(Len(peers) + 1)

\* the engine calls SendTo(ctx, id, m): the range check, then the peer
SendToCall(id, m, d) ==
    /\ Settled
    /\ call.pc = "idle"
    /\ ncalls < MaxCalls
    /\ ncalls' = ncalls + 1
    /\ call' = IF InvalidID(id)
                  THEN [IdleCall EXCEPT !.pc = "returned", !.op = "SendTo", !.n = ncalls + 1, !.msg = m,
                                        !.id = id, !.ctxDone = d,
                                        !.ret = New("invalid peer ID")]
                  ELSE [IdleCall EXCEPT !.pc = IF PeerAtIndex(ToIndex(id)) = 0
                                                  THEN "panic" ELSE "deliver",
                                        !.op = "SendTo", !.n = ncalls + 1, !.msg = m, !.id = id,
                                        !.peer = PeerAtIndex(ToIndex(id)),
                                        !.ctxDone = d]
    /\ UNCHANGED <<peers, self, recvCh, hnd, accepted, received, auto>>

\* the peer is the local one: the select on recvCh and ctx.Done()
SendToSelect ==
    /\ Settled
    /\ call.pc = "deliver" /\ call.op = "SendTo"
    /\ IsLocal(call.peer)
    /\ \E o \in Select(recvCh, Slot(call.msg, "engine", 0, call.n), call.ctxDone) :
          /\ recvCh' = o.ch
          /\ IF o.sent
                THEN /\ accepted' = Append(accepted, Slot(call.msg, "engine", 0, call.n))
                     /\ call' = [call EXCEPT !.pc = "returned", !.ret = Nil, !.sel = @ + 1, !.enq = @ + 1]
                ELSE /\ accepted' = accepted
                     /\ call' = [call EXCEPT !.pc = "returned", !.ret = CtxErr, !.sel = @ + 1]
    /\ UNCHANGED <<peers, self, hnd, received, ncalls, auto>>

\* the peer is remote: protoMsg := msg.ToProto(), then SendAsync
SendToSendAsync ==
    /\ Settled
    /\ call.pc = "deliver" /\ call.op = "SendTo"
    /\ ~IsLocal(call.peer)
    /\ \E err \in SendAsyncResults(call.ctxDone) :
          call' = SendToAfterSend(
                      [call EXCEPT !.protoMsg = ToProto(call.msg), !.encs = @ + 1,
                                   !.sent = Append(@, Attempt(call.peer, ToProto(call.msg), err))],
                      err)
    /\ UNCHANGED <<peers, self, recvCh, hnd, accepted, received, ncalls, auto>>

\* the caller's context is cancelled, or its deadline passes, during the call
CancelCall ==
    /\ Settled
    /\ call.pc \in {"loop", "deliver"}
    /\ ~call.ctxDone
    /\ call' = [call EXCEPT !.ctxDone = TRUE]
    /\ UNCHANGED <<peers, self, recvCh, hnd, accepted, received, ncalls, auto>>

---------------------------------------------------------------------------
(* transport.P2PHandler                                                    *)

\* the peer.ID the host names as the sender
Senders == {Outsider}

\* faulty variant: a request whose sender is not in the directory is rejected
P2PHandlerEntryMembersOnly(from, req, d, n) ==
    IF ~IsValid(req) \/ IsNilMsg(req) \/ \A j \in DOMAIN peers : peers[j] # from
       THEN P2PHandlerReject([IdleHnd EXCEPT !.req = req, !.from = from,
                                             !.ctxDone = d, !.n = n])
       ELSE [IdleHnd EXCEPT !.pc = "select", !.req = req, !.from = from,
                            !.ctxDone = d, !.n = n]

\* P2PHandler(ctx, from, req), the n-th call made, up to its select: the type
\* assertion and the nil check; the sender is not looked at
P2PHandlerEntry(from, req, d, n) ==
    IF ~IsValid(req) \/ IsNilMsg(req)
       THEN P2PHandlerReject([IdleHnd EXCEPT !.req = req, !.from = from,
                                             !.ctxDone = d, !.n = n])
       ELSE [IdleHnd EXCEPT !.pc = "select", !.req = req, !.from = from,
                            !.ctxDone = d, !.n = n]

\* the host calls P2PHandler(ctx, from, req): the type assertion and nil check
\* (sessions are interchangeable: the host uses the lowest free one)
P2PHandlerCall(s, from, req, d) ==
    /\ Settled
    /\ hnd[s].pc = "idle"
    /\ \A r \in Sessions : r < s => hnd[r].pc # "idle"
    /\ ncalls < MaxCalls
    /\ ncalls' = ncalls + 1
    /\ hnd' = [hnd EXCEPT ![s] = P2PHandlerEntry(from, req, d, ncalls + 1)]
    /\ UNCHANGED <<peers, self, recvCh, call, accepted, received, auto>>

\* the select on recvCh and ctx.Done(), then return nil, false, err
P2PHandlerSelect(s) ==
    /\ Settled
    /\ hnd[s].pc = "select"
    /\ \E o \in Select(recvCh, Slot(ProtoToMsg(hnd[s].req), "session", s, hnd[s].n), hnd[s].ctxDone) :
          /\ recvCh' = o.ch
          /\ IF o.sent
                THEN /\ accepted' = Append(accepted, Slot(ProtoToMsg(hnd[s].req), "session", s, hnd[s].n))
                     /\ hnd' = [hnd EXCEPT ![s] = P2PHandlerReturn([@ EXCEPT !.sel = @ + 1, !.enq = @ + 1], Nil)]
                ELSE /\ accepted' = accepted
                     /\ hnd' = [hnd EXCEPT ![s] = P2PHandlerReturn([@ EXCEPT !.sel = @ + 1], CtxErr)]
    /\ UNCHANGED <<peers, self, call, received, ncalls, auto>>

\* the session's context is cancelled during the call
CancelHandler(s) ==
    /\ Settled
    /\ hnd[s].pc = "select"
    /\ ~hnd[s].ctxDone
    /\ hnd' = [hnd EXCEPT ![s].ctxDone = TRUE]
    /\ UNCHANGED <<peers, self, recvCh, call, accepted, received, ncalls, auto>>

---------------------------------------------------------------------------
(* transport.ReceiveCh and its reader                                      *)

\* t.ReceiveCh(): return t.recvCh
ReceiveCh == recvCh

\* the engine reads one message: <-t.ReceiveCh()
Receive ==
    /\ Settled
    /\ ReceiveCh # <<>>
    /\ Len(received) < MaxCalls
    /\ received' = Append(received, RecvValue(ReceiveCh))
    /\ recvCh' = RecvRest(ReceiveCh)
    /\ UNCHANGED <<peers, self, call, hnd, accepted, ncalls, auto>>

---------------------------------------------------------------------------
(* Callers.                                                                *)

\* the callers take the results of the calls that returned: the records of
\* those calls are dropped, and each caller may call again
Resume ==
    /\ ~Settled
    /\ call' = IF call.pc = "returned" THEN IdleCall ELSE call
    /\ hnd' = [s \in Sessions |-> IF hnd[s].pc = "returned" THEN IdleHnd ELSE hnd[s]]
    /\ UNCHANGED <<peers, self, recvCh, accepted, received, ncalls, auto>>

Next ==
    \/ \E m \in Msgs, d \in BOOLEAN : BroadcastCall(m, d)
    \/ BroadcastSelect
    \/ BroadcastSendAsync
    \/ BroadcastReturn
    \/ \E id \in IDs, m \in Msgs, d \in BOOLEAN : SendToCall(id, m, d)
    \/ SendToSelect
    \/ SendToSendAsync
    \/ CancelCall
    \/ \E s \in Sessions, from \in Senders, req \in Reqs, d \in BOOLEAN : P2PHandlerCall(s, from, req, d)
    \/ \E s \in Sessions : P2PHandlerSelect(s)
    \/ \E s \in Sessions : CancelHandler(s)
    \/ Receive
    \/ Resume

Spec == Init /\ [][Next]_vars

\* Inbound delivery alone, the host naming as the sender a peer outside the
\* directory, the local peer or the directory's first peer.
AnySender == {Outsider, self, peers[1]}

NextInbound ==
    \/ \E s \in Sessions, from \in AnySender, req \in Reqs, d \in BOOLEAN : P2PHandlerCall(s, from, req, d)
    \/ \E s \in Sessions : P2PHandlerSelect(s)
    \/ \E s \in Sessions : CancelHandler(s)
    \/ Receive
    \/ Resume

SpecInbound == Init /\ [][NextInbound]_vars

\* The calls that can suspend, started on a channel that is full: Broadcast,
\* SendTo to the local peer and P2PHandler with a HotStuff message.
InitLive == Init /\ recvCh # <<>>

NextLive ==
    \/ \E m \in Msgs, d \in BOOLEAN : BroadcastCall(m, d)
    \/ BroadcastSelect
    \/ BroadcastSendAsync
    \/ BroadcastReturn
    \/ \E id \in {j \in DOMAIN peers : peers[j] = self}, m \in Msgs, d \in BOOLEAN : SendToCall(id, m, d)
    \/ SendToSelect
    \/ CancelCall
    \/ \E s \in Sessions, from \in Senders, m \in RemoteMsgs, d \in BOOLEAN : P2PHandlerCall(s, from, ToProto(m), d)
    \/ \E s \in Sessions : P2PHandlerSelect(s)
    \/ \E s \in Sessions : CancelHandler(s)
    \/ Receive
    \/ Resume

\* the scheduler runs a goroutine that can run: a select with a case that can
\* proceed completes, a call that is past its select returns, and a caller
\* takes the result of its call
SpecLive ==
    /\ InitLive /\ [][NextLive]_vars
    /\ WF_vars(BroadcastSelect) /\ WF_vars(BroadcastSendAsync) /\ WF_vars(BroadcastReturn)
    /\ WF_vars(SendToSelect)
    /\ \A s \in Sessions : WF_vars(P2PHandlerSelect(s))
    /\ WF_vars(Resume)

---------------------------------------------------------------------------
(* compose.Auto                                                            *)

\* the steps of Auto's loop: Name, whether TmplFunc is set, RunStep
steps(conf) ==
    <<[Name |-> "define", TmplFunc |-> conf.DefineTmplFunc, RunStep |-> FALSE],
      [Name |-> "lock", TmplFunc |-> FALSE, RunStep |-> FALSE],
      [Name |-> "run", TmplFunc |-> conf.RunTmplFunc, RunStep |-> TRUE]>>

\* what the commands may return: the runner of NewRunnerFunc (LoadConfig, then
\* the step's RunFunc), fixPerms, WriteDockerCompose, printDockerCompose,
\* execDown, and execUp (docker-compose build, then up, whose error is the
\* context's when the context is done)
RunnerResults == {Nil, <<"compose config.json not found">>, <<"run func">>}

FixPermsResults == {Nil, <<"exec sudo chmod", "exit status 1">>}

WriteDockerComposeResults == {Nil, <<"write docker-compose">>}

PrintDockerComposeResults == {Nil, <<"exec cat docker-compose.yml", "exit status 1">>}

ExecDownResults == {Nil, <<"run down", "exit status 1">>}

ExecUpResults ==
    {Nil, <<"exec docker-compose build", "exit status 1">>,
     <<"exec docker-compose up", "exit status 1">>,
     <<"exec docker-compose up", "context deadline exceeded">>}

\* errors.Is(err, target)
Is(err, target) == \E j \in DOMAIN err : err[j] = target

\* the channel of the alert collector, read to its end: alertsPolled seen or not,
\* and whether alerts came
AlertOutcomes == [polled : BOOLEAN, alerts : BOOLEAN]

\* the call a after command op returned err
Logged(a, op, err) ==
    [a EXCEPT !.log = Append(@, [op |-> op, loop |-> a.step # 0,
                                 step |-> IF a.step = 0 THEN "none" ELSE steps(a.conf)[a.step].Name,
                                 err |-> err])]

\* return err
AutoReturn(a, err) == [a EXCEPT !.pc = "returned", !.ret = err]

\* after the loop: execDown if conf.AlertTimeout > 0, then startAlertCollector
AfterLoop(a) ==
    [a EXCEPT !.step = 0,
              !.pc = IF a.conf.AlertTimeout > 0 THEN "execDown" ELSE "startAlertCollector"]

\* faulty variant: the loop does not stop at the run step
AfterPrintNoBreak(a) == [a EXCEPT !.pc = "execUp"]

\* if step.RunStep { break }, else execUp
AfterPrint(a) ==
    IF steps(a.conf)[a.step].RunStep THEN AfterLoop(a) ELSE [a EXCEPT !.pc = "execUp"]

\* if conf.PrintYML { printDockerCompose }
AfterWrite(a) ==
    IF a.conf.PrintYML THEN [a EXCEPT !.pc = "printDockerCompose"] ELSE AfterPrint(a)

\* if step.TmplFunc != nil { step.TmplFunc(&tmpl); WriteDockerCompose }
AfterFixPerms(a) ==
    IF steps(a.conf)[a.step].TmplFunc THEN [a EXCEPT !.pc = "WriteDockerCompose"] ELSE AfterWrite(a)

\* if conf.SudoPerms { fixPerms }
AfterRunner(a) ==
    IF a.conf.SudoPerms THEN [a EXCEPT !.pc = "fixPerms"] ELSE AfterFixPerms(a)

\* the loop's next step, or its end
AfterExecUp(a) ==
    IF a.step < Len(steps(a.conf)) THEN [a EXCEPT !.step = @ + 1, !.pc = "run"] ELSE AfterLoop(a)

\* Auto(ctx, conf) is called: the loop starts at its first step
AutoCall(conf) ==
    /\ auto.pc = "idle"
    /\ auto' = [NoAuto EXCEPT !.pc = "run", !.conf = conf, !.step = 1]
    /\ UNCHANGED vars

\* tmpl, err := run(ctx)
AutoRun ==
    /\ auto.pc = "run"
    /\ \E err \in RunnerResults :
          auto' = IF err # Nil THEN AutoReturn(Logged(auto, "run", err), err)
                               ELSE AfterRunner(Logged(auto, "run", err))
    /\ UNCHANGED vars

AutoFixPerms ==
    /\ auto.pc = "fixPerms"
    /\ \E err \in FixPermsResults :
          auto' = IF err # Nil THEN AutoReturn(Logged(auto, "fixPerms", err), err)
                               ELSE AfterFixPerms(Logged(auto, "fixPerms", err))
    /\ UNCHANGED vars

AutoWriteDockerCompose ==
    /\ auto.pc = "WriteDockerCompose"
    /\ \E err \in WriteDockerComposeResults :
          auto' = IF err # Nil THEN AutoReturn(Logged(auto, "WriteDockerCompose", err), err)
                               ELSE AfterWrite(Logged(auto, "WriteDockerCompose", err))
    /\ UNCHANGED vars

AutoPrintDockerCompose ==
    /\ auto.pc = "printDockerCompose"
    /\ \E err \in PrintDockerComposeResults :
          auto' = IF err # Nil THEN AutoReturn(Logged(auto, "printDockerCompose", err), err)
                               ELSE AfterPrint(Logged(auto, "printDockerCompose", err))
    /\ UNCHANGED vars

\* execUp inside the loop
AutoExecUp ==
    /\ auto.pc = "execUp"
    /\ \E err \in ExecUpResults :
          auto' = IF err # Nil THEN AutoReturn(Logged(auto, "execUp", err), err)
                               ELSE AfterExecUp(Logged(auto, "execUp", err))
    /\ UNCHANGED vars

\* _ = execDown(ctx, conf.Dir), before the alert test
AutoExecDown ==
    /\ auto.pc = "execDown"
    /\ \E err \in ExecDownResults :
          auto' = [Logged(auto, "execDown", err) EXCEPT !.pc = "startAlertCollector"]
    /\ UNCHANGED vars

AutoStartAlertCollector ==
    /\ auto.pc = "startAlertCollector"
    /\ auto' = [Logged(auto, "startAlertCollector", Nil) EXCEPT !.pc = "finalExecUp"]
    /\ UNCHANGED vars

\* execUp after the loop; on a return from here on, the deferred execDown runs
AutoFinalExecUp ==
    /\ auto.pc = "finalExecUp"
    /\ \E err \in ExecUpResults :
          auto' = IF err # Nil /\ ~Is(err, "context deadline exceeded")
                     THEN AutoReturn(Logged(Logged(auto, "execUp", err), "execDown", Nil), err)
                     ELSE [Logged(auto, "execUp", err) EXCEPT !.pc = "alerts"]
    /\ UNCHANGED vars

\* the alerts are read to the end of the channel, and Auto returns
AutoAlerts ==
    /\ auto.pc = "alerts"
    /\ \E o \in AlertOutcomes :
          auto' = AutoReturn(Logged(auto, "execDown", Nil),
                             IF o.polled /\ o.alerts THEN <<"alerts detected">> ELSE Nil)
    /\ UNCHANGED vars

\* Auto alone, beside a transport nobody calls
InitAuto ==
    /\ peers = <<PeerIDAt(1)>> /\ self = PeerIDAt(1)
    /\ recvCh = <<>> /\ accepted = <<>> /\ received = <<>>
    /\ call = IdleCall /\ hnd = [s \in Sessions |-> IdleHnd] /\ ncalls = 0
    /\ auto = NoAuto

NextAuto ==
    \/ \E conf \in AutoConfigs : AutoCall(conf)
    \/ AutoRun
    \/ AutoFixPerms
    \/ AutoWriteDockerCompose
    \/ AutoPrintDockerCompose
    \/ AutoExecUp
    \/ AutoExecDown
    \/ AutoStartAlertCollector
    \/ AutoFinalExecUp
    \/ AutoAlerts

SpecAuto == InitAuto /\ [][NextAuto]_<<vars, auto>>

---------------------------------------------------------------------------
(* Vocabulary of the properties.                                           *)

\* every value that is on recvCh or was read from it, oldest first
Delivered == received \o recvCh

\* the places of q that hold the value the engine's call sent on recvCh
EngineSlots(q) == {j \in DOMAIN q : q[j].src = "engine" /\ q[j].n = call.n}

\* the places of q that hold the value session s's call sent on recvCh
SessionSlots(q, s) == {j \in DOMAIN q : q[j].src = "session" /\ q[j].who = s /\ q[j].n = hnd[s].n}

\* the send requests of the engine's call that name peer p
AttemptsTo(p) == {j \in DOMAIN call.sent : call.sent[j].to = p}

\* the directory's positions that hold the local peer
LocalPositions == {j \in DOMAIN peers : peers[j] = self}

BroadcastReturned == call.op = "Broadcast" /\ call.pc = "returned"

SendToReturned == call.op = "SendTo" /\ call.pc = "returned"

---------------------------------------------------------------------------
(* C1..C10                                                                 *)

\* C1 (fan-out completeness): when the directory holds the local peer exactly
\* once and Broadcast(m) has returned nil, the call made exactly N-1 send
\* requests, one to each remote peer and none to the local peer, every one of
\* them carrying ToProto(m), which the call computed once, and it sent m on
\* recvCh exactly once.
C1_FanOutComplete ==
    (BroadcastReturned /\ call.ret = Nil /\ Cardinality(LocalPositions) = 1) =>
        /\ Len(call.sent) = Len(peers) - 1
        /\ \A j \in DOMAIN peers :
              Cardinality(AttemptsTo(peers[j])) = IF peers[j] = self THEN 0 ELSE 1
        /\ \A j \in DOMAIN call.sent : call.sent[j].payload = ToProto(call.msg)
        /\ call.encs = 1
        /\ call.sel = 1 /\ call.enq = 1
        /\ Cardinality(EngineSlots(accepted)) = 1
        /\ \A j \in EngineSlots(accepted) : accepted[j].msg = call.msg

\* a Broadcast over a directory of at least three peers, the local one neither
\* first nor last, has returned nil
C1_Witness ==
    /\ BroadcastReturned /\ call.ret = Nil
    /\ Len(peers) >= 3 /\ self = peers[2]
    /\ Len(call.sent) = Len(peers) - 1

\* C2 (loopback correctness): once Broadcast(m) has returned nil, the values on
\* or read from recvCh hold exactly one that this call sent, it is m itself, and
\* at no point of a Broadcast was a send request made that names the local peer.
C2_Loopback ==
    /\ call.op = "Broadcast" => AttemptsTo(self) = {}
    /\ (BroadcastReturned /\ call.ret = Nil) =>
          /\ Cardinality(EngineSlots(Delivered)) = 1
          /\ \A j \in EngineSlots(Delivered) : Delivered[j].msg = call.msg

\* Broadcast(m) has returned nil and the consumer has already read m: it is the
\* last value read, and nothing was handed to the host for the local peer
C2_Witness ==
    /\ BroadcastReturned /\ call.ret = Nil
    /\ received # <<>>
    /\ received[Len(received)] = Slot(call.msg, "engine", 0, call.n)
    /\ Len(peers) >= 2

\* C3 (range validation): a SendTo whose id is below 1 or above the directory's
\* length is never past its range check: it has returned "invalid peer ID",
\* whatever the channel holds and whether or not its context is done, having
\* made no send request, gone through no select and sent nothing on recvCh.
C3_RangeValidation ==
    (call.op = "SendTo" /\ (call.id < 1 \/ call.id > Len(peers))) =>
        /\ call.pc = "returned"
        /\ call.ret = <<"invalid peer ID">>
        /\ call.sent = <<>> /\ call.sel = 0 /\ call.enq = 0 /\ call.encs = 0
        /\ EngineSlots(Delivered) = {}
        /\ EngineSlots(accepted) = {}

\* SendTo(N+1, m) has returned under a context that is done, the channel full
C3_Witness ==
    /\ SendToReturned /\ call.id = Len(peers) + 1
    /\ call.ret = <<"invalid peer ID">>
    /\ call.ctxDone
    /\ Len(recvCh) = msgBufferSize

\* the engine's call is at a select: at the local peer's position of Broadcast's
\* loop, or in SendTo with the local peer resolved
EngineAtSelect ==
    \/ /\ call.op = "Broadcast" /\ call.pc = "loop"
       /\ call.i <= Len(peers) /\ peers[call.i] = self
    \/ /\ call.op = "SendTo" /\ call.pc = "deliver"
       /\ call.peer = self

Full == Len(recvCh) = msgBufferSize

\* C4 (cancellation safety): a select that completes on a full channel, in
\* Broadcast's loopback branch, in SendTo to the local peer or in P2PHandler,
\* completes because its context is done: the call returns ctx.Err() and recvCh
\* holds exactly what it held, nothing inserted, removed or reordered.
C4_CancellationSafety ==
    [][Full =>
          /\ (EngineAtSelect /\ call'.sel # call.sel) =>
                /\ call.ctxDone
                /\ call'.pc = "returned" /\ call'.ret = <<"context canceled">>
                /\ call'.enq = call.enq
                /\ recvCh' = recvCh /\ accepted' = accepted
          /\ \A s \in Sessions : (hnd[s].pc = "select" /\ hnd'[s].sel # hnd[s].sel) =>
                /\ hnd[s].ctxDone
                /\ hnd'[s].pc = "returned" /\ hnd'[s].err = <<"context canceled">>
                /\ hnd'[s].enq = hnd[s].enq
                /\ recvCh' = recvCh /\ accepted' = accepted]_vars

\* a Broadcast blocked at the local peer on the full channel has returned
\* ctx.Err(), and the channel still holds the sixteen values it held
C4_Witness ==
    /\ BroadcastReturned /\ call.ret = CtxErr
    /\ call.sel = 1 /\ call.enq = 0
    /\ recvCh = Prior(msgBufferSize)

\* the send requests of the engine's call that returned an error
FailedAttempts == {j \in DOMAIN call.sent : call.sent[j].err # Nil}

\* the directory position of peer p
PositionOf(p) == CHOOSE j \in DOMAIN peers : peers[j] = p

\* the remote peers among the first k of the directory, in directory order
RemotesUpTo(k) == SelectSeq(SubSeq(peers, 1, k), LAMBDA p : p # self)

\* C5 (fail-fast fan-out): once a send request of Broadcast has failed, the call
\* has returned that error wrapped with "failed to send message"; the failed
\* request is the call's last, made once; the requests made are those to the
\* remote peers up to the failed one, in directory order, and the message is on
\* recvCh only if the local peer precedes the failed one.
C5_FailFast ==
    (call.op = "Broadcast" /\ FailedAttempts # {}) =>
        /\ call.pc = "returned"
        /\ FailedAttempts = {Len(call.sent)}
        /\ call.ret = <<"failed to send message">> \o call.sent[Len(call.sent)].err
        /\ LET k == PositionOf(call.sent[Len(call.sent)].to) IN
              /\ [j \in DOMAIN call.sent |-> call.sent[j].to] = RemotesUpTo(k)
              /\ call.sel = Cardinality({j \in LocalPositions : j < k})
              /\ call.enq = call.sel
              /\ Cardinality(EngineSlots(accepted)) = call.enq

\* four participants, the local one second: the send to the third has failed,
\* and the first and the third are the only ones the host was asked to reach
C5_Witness ==
    /\ BroadcastReturned
    /\ Len(peers) = 4 /\ self = peers[2]
    /\ Len(call.sent) = 2
    /\ call.sent[1].to = peers[1] /\ call.sent[1].err = Nil
    /\ call.sent[2].to = peers[3] /\ call.sent[2].err = ErrHost
    /\ call.enq = 1

\* C6 (unicast): SendTo(id, m) with id in 1..N resolves the peer at directory
\* position id (index id-1) and, once returned, has dealt with that peer alone:
\* for the local peer, one select on recvCh (m put on it once, or ctx.Err()
\* returned and nothing put) and no send request; for a remote peer, one send
\* request, to that peer, carrying ToProto(m), nothing put on recvCh, and the
\* request's error returned wrapped with "failed to send message".
C6_Unicast ==
    (call.op = "SendTo" /\ call.id \in 1..Len(peers)) =>
        /\ call.pc \in {"deliver", "returned"}
        /\ call.peer = peers[call.id]
        /\ call.pc = "returned" =>
              IF peers[call.id] = self
                 THEN /\ call.sent = <<>> /\ call.encs = 0
                      /\ call.sel = 1
                      /\ \/ call.ret = Nil /\ call.enq = 1
                         \/ call.ret = <<"context canceled">> /\ call.enq = 0
                      /\ Cardinality(EngineSlots(Delivered)) = call.enq
                      /\ \A j \in EngineSlots(Delivered) : Delivered[j].msg = call.msg
                 ELSE /\ Len(call.sent) = 1
                      /\ call.sent[1].to = peers[call.id]
                      /\ call.sent[1].payload = ToProto(call.msg)
                      /\ call.sel = 0 /\ call.enq = 0
                      /\ EngineSlots(Delivered) = {}
                      /\ call.ret = IF call.sent[1].err = Nil THEN Nil
                                    ELSE <<"failed to send message">> \o call.sent[1].err

\* SendTo(3, m) to a remote peer has returned the host's error, wrapped
C6_Witness ==
    /\ SendToReturned /\ call.id = 3 /\ self = peers[2]
    /\ Len(call.sent) = 1 /\ call.sent[1].to = peers[3]
    /\ call.ret = <<"failed to send message", "host error">>

\* the payload is no HotStuff message: a nil interface, another kind, or a nil
\* *pbv1.HotStuffMsg
Rejectable(req) == req.kind # "HotStuffMsg" \/ req.ptr = "nil"

\* C7 (inbound rejection): P2PHandler called with a payload that is absent or
\* not a HotStuff message returns in that very step, whatever the channel
\* holds, with an error, no response and no continuation, and the step changes
\* nothing else: recvCh, the histories, the directory, the engine's call and
\* the other sessions are as they were; the session is free again afterwards.
C7_InboundRejection ==
    [][\A s \in Sessions :
          /\ (hnd[s].pc = "idle" /\ hnd'[s].pc # "idle" /\ Rejectable(hnd'[s].req)) =>
                /\ hnd'[s].pc = "returned"
                /\ hnd'[s].err = <<"received invalid HotStuff consensus message">>
                /\ hnd'[s].resp = "nil" /\ hnd'[s].more = FALSE
                /\ hnd'[s].sel = 0 /\ hnd'[s].enq = 0
                /\ UNCHANGED <<peers, self, recvCh, call, accepted, received>>
                /\ \A r \in Sessions \ {s} : hnd'[r] = hnd[r]
          /\ (hnd[s].pc = "returned" /\ hnd'[s] # hnd[s]) =>
                /\ hnd'[s] = IdleHnd
                /\ UNCHANGED <<peers, self, recvCh, accepted, received>>]_vars

\* a message of another protocol was rejected while the channel was full
C7_Witness ==
    \E s \in Sessions :
        /\ hnd[s].pc = "returned" /\ hnd[s].req = OtherReq
        /\ hnd[s].err = <<"received invalid HotStuff consensus message">>
        /\ Full

\* C8 (FIFO delivery): what the consumer has read, followed by what recvCh
\* holds, is exactly the sequence of the accepted sends, in their order: the
\* values that were on the channel at the start keep their places, and the
\* values of one source (the engine's calls, one session's calls) come in the
\* order of that source's calls.
C8_Fifo ==
    /\ accepted = received \o recvCh
    /\ \A j \in DOMAIN Delivered : Delivered[j].src = "prior" => Delivered[j].n = j
    /\ LET sent == SelectSeq(Delivered, LAMBDA e : e.src # "prior") IN
          \A i, j \in DOMAIN sent :
              (i < j /\ sent[i].src = sent[j].src /\ sent[i].who = sent[j].who)
                  => sent[i].n < sent[j].n

\* the consumer has read the values of two successive loopback calls
C8_Witness ==
    /\ Len(received) = 2
    /\ received[1].src = "engine" /\ received[1].n = 1
    /\ received[2].src = "engine" /\ received[2].n = 2

\* C9 (bounded queue, back-pressure): recvCh never holds more than
\* msgBufferSize values; while it is full no step changes it but a read of its
\* oldest value, and a producer at a select whose context is not done takes no
\* step (it stays suspended).
C9_Bounded ==
    /\ [](Len(recvCh) <= msgBufferSize)
    /\ [][Full =>
             /\ \/ recvCh' = recvCh
                \/ recvCh' = Tail(recvCh) /\ received' = Append(received, Head(recvCh))
             /\ (EngineAtSelect /\ ~call.ctxDone) =>
                   call' \in {call, [call EXCEPT !.ctxDone = TRUE]}
             /\ \A s \in Sessions : (hnd[s].pc = "select" /\ ~hnd[s].ctxDone) =>
                   hnd'[s] \in {hnd[s], [hnd[s] EXCEPT !.ctxDone = TRUE]}]_vars

\* the channel is full with a SendTo to the local peer and a P2PHandler both
\* suspended at their selects
C9_Witness ==
    /\ Full
    /\ call.op = "SendTo" /\ EngineAtSelect /\ ~call.ctxDone
    /\ \E s \in Sessions : hnd[s].pc = "select" /\ ~hnd[s].ctxDone

\* C10 (no silent drop): the values of a call that are on recvCh or were read
\* from it are as many as its selects that sent, at most one per select; a
\* SendTo to the local peer or a P2PHandler of a HotStuff message that returned
\* either returned nil with its message on the channel once, or returned
\* ctx.Err() with nothing of it on the channel; a Broadcast whose select did not
\* send has returned ctx.Err(), and one that returned ctx.Err() sent nothing.
C10_NoSilentDrop ==
    /\ Cardinality(EngineSlots(Delivered)) = call.enq
    /\ call.enq <= call.sel /\ call.sel <= 1
    /\ (SendToReturned /\ call.sel = 1) =>
          \/ call.ret = Nil /\ call.enq = 1
          \/ call.ret = <<"context canceled">> /\ call.enq = 0
    /\ (call.op = "Broadcast" /\ call.sel = 1 /\ call.enq = 0) =>
          call.pc = "returned" /\ call.ret = <<"context canceled">>
    /\ (BroadcastReturned /\ call.ret = <<"context canceled">>) => call.enq = 0
    /\ (BroadcastReturned /\ call.ret = Nil) => call.enq = 1
    /\ \A s \in Sessions :
          /\ Cardinality(SessionSlots(Delivered, s)) = hnd[s].enq
          /\ \A j \in SessionSlots(Delivered, s) : Delivered[j].msg = ProtoToMsg(hnd[s].req)
          /\ (hnd[s].pc = "returned" /\ ~Rejectable(hnd[s].req)) =>
                /\ hnd[s].sel = 1
                /\ \/ hnd[s].err = Nil /\ hnd[s].enq = 1
                   \/ hnd[s].err = <<"context canceled">> /\ hnd[s].enq = 0

\* a P2PHandler whose context was done returned ctx.Err() although the channel
\* had room, and its message is not on the channel
C10_Witness ==
    \E s \in Sessions :
        /\ hnd[s].pc = "returned" /\ hnd[s].req = ToProto([Type |-> "vote", View |-> 2])
        /\ hnd[s].err = CtxErr /\ hnd[s].enq = 0
        /\ recvCh = <<>>

---------------------------------------------------------------------------
(* C11..C20                                                                *)

\* the innermost error of a chain: what the outer messages wrap
Cause(err) == err[Len(err)]

\* the call failed because the context's cancellation was observed
Cancelled(err) == err # Nil /\ Cause(err) = Cause(CtxErr)

\* C11 (cancellation verbatim): a Broadcast, SendTo or P2PHandler that failed
\* because the cancellation was observed, by its select or by SendAsync, has
\* returned ctx.Err() itself, with nothing wrapped around it.
C11_CancellationVerbatim ==
    /\ (call.pc = "returned" /\ Cancelled(call.ret)) => call.ret = <<"context canceled">>
    /\ \A s \in Sessions :
          (hnd[s].pc = "returned" /\ Cancelled(hnd[s].err)) => hnd[s].err = <<"context canceled">>

\* SendAsync observed the cancellation and Broadcast returned it wrapped
C11_Witness ==
    /\ BroadcastReturned
    /\ call.sent # <<>> /\ call.sent[Len(call.sent)].err = CtxErr
    /\ call.ret = <<"failed to send message", "context canceled">>

\* Broadcast is in its loop with a peer still to deal with
BroadcastIterating == call.op = "Broadcast" /\ call.pc = "loop" /\ call.i <= Len(peers)

\* C12 (mid-loop cancellation): when the context is done while Broadcast is in
\* its loop with a peer still to deal with (every such state is one the
\* cancellation leaves the call in when it fires at that point of the loop),
\* the call's next step returns ctx.Err(), with no send request made and
\* nothing put on recvCh, whether or not the channel has room.
C12_MidLoopCancellation ==
    [][(BroadcastIterating /\ call.ctxDone /\ call' # call) =>
          /\ call'.pc = "returned" /\ call'.ret = <<"context canceled">>
          /\ call'.sent = call.sent
          /\ call'.enq = call.enq
          /\ recvCh' = recvCh]_vars

\* a Broadcast whose context was done before its last two peers were dealt with
\* has nevertheless put its message on recvCh, made a send request after that,
\* and returned nil
C12_Witness ==
    /\ BroadcastReturned /\ call.ret = Nil /\ call.ctxDone
    /\ Len(peers) >= 2 /\ self = peers[Len(peers) - 1]
    /\ call.enq = 1
    /\ call.sent # <<>> /\ call.sent[Len(call.sent)].to = peers[Len(peers)]

\* the values a sequence holds, and how many times it holds one of them
Range(q) == {q[j] : j \in DOMAIN q}

Count(q, e) == Cardinality({j \in DOMAIN q : q[j] = e})

\* C13 (concurrent producers): with the engine's call, the sessions' P2PHandler
\* calls and the consumer interleaved in every way, each value is among those
\* read plus those on recvCh exactly as many times as a send of it on recvCh
\* succeeded: none is lost, duplicated or replaced (as many values in all as
\* sends succeeded, and each sent value as many times as it was sent).
C13_ProducerSafety ==
    [](/\ Len(received) + Len(recvCh) = Len(accepted)
       /\ \A e \in Range(accepted) : Count(received, e) + Count(recvCh, e) = Count(accepted, e))

\* while a session's P2PHandler is still at its select, a call the engine made
\* after it has put its value on recvCh and the consumer has read a value
C13_Witness ==
    /\ received # <<>>
    /\ \E s \in Sessions :
          /\ hnd[s].pc = "select"
          /\ \E j \in DOMAIN accepted : accepted[j].src = "engine" /\ accepted[j].n > hnd[s].n

\* the consumer keeps reading while there is something to read
ConsumerDrains == WF_vars(Receive)

\* the context of every call in progress eventually becomes done
SignalsFire == WF_vars(CancelCall) /\ \A s \in Sessions : WF_vars(CancelHandler(s))

\* C14 (blocked enqueues make progress): if the consumer keeps draining
\* recvCh, or the context of every call eventually becomes done, then a call
\* that is at a select (Broadcast at the local peer, SendTo to the local peer,
\* P2PHandler) eventually is past it: no producer stays suspended forever
\* (each of them is, again and again, not at a select).
C14_Progress ==
    (ConsumerDrains \/ SignalsFire) =>
        /\ []<>~EngineAtSelect
        /\ \A s \in Sessions : []<>(hnd[s].pc # "select")

\* the channel is full again after the consumer read once and the engine's
\* call took the place: the session that called before the engine is still
\* suspended at its select, its context not done, and the consumer can read
C14_Witness ==
    /\ Full /\ Len(received) = 1 /\ Len(accepted) = msgBufferSize + 1
    /\ call.pc = "returned" /\ call.ret = Nil /\ call.enq = 1
    /\ \E s \in Sessions : hnd[s].pc = "select" /\ ~hnd[s].ctxDone /\ hnd[s].n < call.n

\* C15 (fire and forget): P2PHandler never has a response or a continuation,
\* on any path; once returned, for a request that is no HotStuff message it has
\* its error and put nothing on recvCh, and for a HotStuff message it either
\* returned nil, having put the one message that encodes to the request on
\* recvCh once, or returned ctx.Err() under a context that is done, having put
\* nothing: the error is non-nil only for an invalid request or a cancelled send.
C15_FireAndForget ==
    \A s \in Sessions :
        /\ hnd[s].resp = "nil" /\ hnd[s].more = FALSE
        /\ hnd[s].pc = "returned" =>
              IF Rejectable(hnd[s].req)
                 THEN /\ hnd[s].err = <<"received invalid HotStuff consensus message">>
                      /\ SessionSlots(accepted, s) = {}
                 ELSE \/ /\ hnd[s].err = Nil
                         /\ Cardinality(SessionSlots(accepted, s)) = 1
                         /\ \A j \in SessionSlots(accepted, s) : ToProto(accepted[j].msg) = hnd[s].req
                      \/ /\ hnd[s].err = <<"context canceled">>
                         /\ hnd[s].ctxDone
                         /\ SessionSlots(accepted, s) = {}

\* a P2PHandler, the second call made, returned nil, false, nil and its vote is
\* the newest value on recvCh
C15_Witness ==
    \E s \in Sessions :
        /\ hnd[s].pc = "returned" /\ hnd[s].err = Nil
        /\ hnd[s].resp = "nil" /\ hnd[s].more = FALSE
        /\ hnd[s].n = 2
        /\ recvCh # <<>> /\ recvCh[Len(recvCh)] = Slot([Type |-> "vote", View |-> 2], "session", s, 2)
        /\ Len(accepted) = Len(recvCh)

\* the peers the send requests q name, in the order of the requests
Targets(q) == [j \in DOMAIN q |-> q[j].to]

\* every send request of q was accepted by the host
AllAccepted(q) == \A j \in DOMAIN q : q[j].err = Nil

\* C16 (directory order): a step of Broadcast that makes the send request to the
\* peer at position j is taken when the requests made so far are those to the
\* remote peers before j, in directory order, all accepted, and the message is
\* on recvCh if and only if the local peer is before j; the step at the select
\* is taken when the requests made so far are those to the remote peers before
\* the local one, all accepted, and no select was gone through before.
C16_DirectoryOrder ==
    [][(call.op = "Broadcast" /\ call'.n = call.n) =>
          /\ Len(call'.sent) # Len(call.sent) =>
                LET j == PositionOf(call'.sent[Len(call'.sent)].to) IN
                   /\ call'.sent = Append(call.sent, call'.sent[Len(call'.sent)])
                   /\ Targets(call.sent) = RemotesUpTo(j - 1)
                   /\ AllAccepted(call.sent)
                   /\ call.sel = Cardinality({l \in LocalPositions : l < j})
                   /\ call.enq = call.sel
                   /\ Cardinality(EngineSlots(accepted)) = call.enq
                   /\ accepted' = accepted
          /\ call'.sel # call.sel =>
                /\ call.sel = 0 /\ call'.sel = 1
                /\ Targets(call.sent) = RemotesUpTo(PositionOf(self))
                /\ AllAccepted(call.sent)
                /\ call'.sent = call.sent]_vars

\* four peers, the local one third: Broadcast has made its requests to the first
\* and the second, put the message on recvCh, made its request to the fourth and
\* returned nil
C16_Witness ==
    /\ BroadcastReturned /\ call.ret = Nil
    /\ Len(peers) = 4 /\ self = peers[3]
    /\ Targets(call.sent) = <<peers[1], peers[2], peers[4]>>
    /\ call.enq = 1

\* q starts with the values of p, in p's order
IsPrefix(p, q) == Len(p) <= Len(q) /\ SubSeq(q, 1, Len(p)) = p

\* C17 (frame): no step changes the directory or the local identity; a step of
\* Broadcast, SendTo or P2PHandler leaves on recvCh the values it held, in their
\* order, adding at most one behind them, and leaves what the consumer read as
\* it was; a step that takes a value off recvCh is the consumer's, takes the
\* oldest one and is no step of a call; ReceiveCh() is recvCh before and after
\* every step.
C17_Frame ==
    [][/\ peers' = peers /\ self' = self
       /\ ReceiveCh = recvCh /\ ReceiveCh' = recvCh'
       /\ (call' # call \/ hnd' # hnd) =>
             /\ IsPrefix(recvCh, recvCh')
             /\ Len(recvCh') <= Len(recvCh) + 1
             /\ received' = received
       /\ ~IsPrefix(recvCh, recvCh') =>
             /\ recvCh' = Tail(recvCh)
             /\ received' = Append(received, Head(recvCh))
             /\ call' = call /\ hnd' = hnd]_vars

\* a P2PHandler has put its message behind the sixteenth value of a channel
\* the consumer had read from, in a directory of four peers
C17_Witness ==
    /\ Len(peers) = 4 /\ self = peers[4]
    /\ Len(received) = 1 /\ Full
    /\ recvCh[msgBufferSize].src = "session"
    /\ \A j \in 1..(msgBufferSize - 1) : recvCh[j] = Prior(msgBufferSize)[j + 1]
    /\ \E s \in Sessions : hnd[s].pc = "returned" /\ hnd[s].enq = 1

\* the directory position at which a Broadcast that returned an error stopped:
\* that of the peer whose send request failed, or else the local peer's, at
\* whose select the cancellation was observed
StoppedAt ==
    IF FailedAttempts # {} THEN PositionOf(call.sent[Len(call.sent)].to) ELSE PositionOf(self)

\* C18 (prefix effect): when Broadcast has returned an error at position k, the
\* accepted send requests are exactly one to each remote peer before k, in
\* directory order; nothing else was attempted but the one failed request to
\* the peer at k, if that is what stopped the call; and the message is among
\* the values on recvCh or read by the consumer, once, exactly if the local
\* peer is before k: the failure takes nothing back.
C18_PrefixEffect ==
    (BroadcastReturned /\ call.ret # Nil) =>
        LET k == StoppedAt
            ok == SelectSeq(call.sent, LAMBDA a : a.err = Nil)
        IN  /\ call.i = k
            /\ Targets(ok) = RemotesUpTo(k - 1)
            /\ Len(call.sent) = Len(ok) + (IF peers[k] = self THEN 0 ELSE 1)
            /\ \A j \in DOMAIN call.sent : PositionOf(call.sent[j].to) <= k
            /\ peers[k] = self => call.ret = <<"context canceled">> /\ call.sel = 1 /\ call.enq = 0
            /\ Cardinality(EngineSlots(Delivered)) = (IF PositionOf(self) < k THEN 1 ELSE 0)
            /\ \A j \in EngineSlots(Delivered) : Delivered[j].msg = call.msg

\* three peers, the local one first: the send to the third failed and Broadcast
\* returned the error, after the consumer had read the message
C18_Witness ==
    /\ BroadcastReturned /\ call.ret = <<"failed to send message", "host error">>
    /\ Len(peers) = 3 /\ self = peers[1]
    /\ Len(call.sent) = 2
    /\ received = <<Slot(call.msg, "engine", 0, call.n)>>

\* a P2PHandler call's record without the sender
Outcome(h) == [h EXCEPT !.from = Outsider]

\* C19 (sender independence): whatever sender the host names, a step of
\* P2PHandler is the step the call takes for any other sender: the call made
\* with a peer outside the directory, the local peer or a directory member as
\* its sender gives the same record (rejected with the same error, or at its
\* select), and the select of a call completes in the same way, with the same
\* error and the same value put on recvCh, when the sender is replaced.
C19_SenderIndependence ==
    [][\A s \in Sessions : \A f \in AnySender :
          /\ (hnd[s].pc = "idle" /\ hnd'[s].pc # "idle") =>
                Outcome(P2PHandlerEntry(f, hnd'[s].req, hnd'[s].ctxDone, hnd'[s].n))
                    = Outcome(hnd'[s])
          /\ (hnd[s].pc = "select" /\ hnd'[s].pc = "returned") =>
                LET h == [hnd[s] EXCEPT !.from = f, !.sel = @ + 1] IN
                   \E o \in Select(recvCh, Slot(ProtoToMsg(h.req), "session", s, h.n), h.ctxDone) :
                      /\ o.ch = recvCh'
                      /\ Outcome(P2PHandlerReturn(
                             [h EXCEPT !.enq = IF o.sent THEN @ + 1 ELSE @],
                             IF o.sent THEN Nil ELSE CtxErr)) = Outcome(hnd'[s])]_vars

\* the local peer named as the sender: the vote is on recvCh and the call
\* returned nil, while the same vote from a peer outside the directory is at
\* its select in the other session
C19_Witness ==
    /\ Len(peers) >= 2 /\ self # peers[1]
    /\ hnd[1].pc = "select" /\ hnd[1].from = Outsider
    /\ hnd[2].pc = "returned" /\ hnd[2].from = self /\ hnd[2].err = Nil /\ hnd[2].enq = 1
    /\ hnd[1].req = hnd[2].req

\* the runs of the steps' runners, and the runs of execUp inside the loop, in
\* the order Auto made them
RunnerRuns == SelectSeq(auto.log, LAMBDA e : e.op = "run")

LoopUps == SelectSeq(auto.log, LAMBDA e : e.op = "execUp" /\ e.loop)

StepOf(q) == [j \in DOMAIN q |-> q[j].step]

\* the step before a step of the loop
StepBefore(name) == IF name = "run" THEN "lock" ELSE "define"

\* C20 (Auto's steps): the runners Auto has run are those of define, lock, run,
\* in that order, each once at most; inside the loop execUp has run for define
\* and for lock only, after that step's runner returned nil; the runner of a
\* later step ran right after the execUp of the step before it returned nil;
\* and a command of the loop (runner, fixPerms, WriteDockerCompose,
\* printDockerCompose, execUp) that returned an error is the last command Auto
\* ran, and Auto has returned that error.
C20_AutoSteps ==
    /\ Len(RunnerRuns) <= 3
    /\ StepOf(RunnerRuns) = SubSeq(<<"define", "lock", "run">>, 1, Len(RunnerRuns))
    /\ Len(LoopUps) <= 2
    /\ StepOf(LoopUps) = SubSeq(<<"define", "lock">>, 1, Len(LoopUps))
    /\ \A b \in DOMAIN auto.log :
          LET e == auto.log[b] IN
             /\ (e.op = "run" /\ e.step = "define") => b = 1
             /\ (e.op = "run" /\ e.step # "define") =>
                   /\ b > 1
                   /\ auto.log[b - 1].op = "execUp" /\ auto.log[b - 1].loop
                   /\ auto.log[b - 1].step = StepBefore(e.step)
                   /\ auto.log[b - 1].err = Nil
             /\ (e.op = "execUp" /\ e.loop) =>
                   \E c \in 1..(b - 1) :
                      /\ auto.log[c].op = "run" /\ auto.log[c].step = e.step
                      /\ auto.log[c].err = Nil
             /\ (e.loop /\ e.err # Nil) =>
                   /\ b = Len(auto.log)
                   /\ auto.pc = "returned" /\ auto.ret = e.err

\* with every switch of the configuration on, define and its execUp went
\* through, and the execUp of lock failed: Auto returned its error, and the
\* runner of run never ran
C20_Witness ==
    /\ auto.pc = "returned" /\ auto.ret = <<"exec docker-compose up", "exit status 1">>
    /\ auto.conf.SudoPerms /\ auto.conf.PrintYML /\ auto.conf.DefineTmplFunc
    /\ StepOf(RunnerRuns) = <<"define", "lock">>
    /\ StepOf(LoopUps) = <<"define", "lock">>
    /\ auto.log[Len(auto.log)].op = "execUp" /\ auto.log[Len(auto.log)].step = "lock"

====
